---- MODULE Spec2Model ----
(***************************************************************************)
(* Model of the weblogs access-log middleware: the logHandler coordinator  *)
(* (weblogs.go) and the loggers.Capture response decorator                 *)
(* (loggers/loggers.go).  Several requests are served concurrently by one  *)
(* logHandler; each request has its own Capture and its own underlying     *)
(* http.ResponseWriter, and all of them share the handler's mutex and its  *)
(* output writer h.w.  The wrapped handler reaches the per-request side    *)
(* channel (extra text and key-value pairs) through the process-global     *)
(* registry of gorilla/context, keyed by the request.                      *)
(***************************************************************************)
EXTENDS Integers, Sequences, FiniteSets, TLC

\* ------------------------------------------------------------------ bounds
\* number of requests served concurrently by the same logHandler
NumRequests == 2
\* Write/WriteHeader calls the wrapped handlers issue in total when the
\* requests are served concurrently (Spec) and when the record of one
\* request is followed (SpecRecord, SpecOptions, SpecApache, SpecSink)
ConcCalls == 1
\* Write/WriteHeader calls the wrapped handler issues when one request is
\* served alone (SpecSingle)
MaxCalls == 2
\* calls on Writer(r) and Values(r) made in total when the requests are
\* served concurrently (SpecSide)
SideCalls == 1
\* side-channel calls, assignments to the request and clock advances made
\* when one request is served alone (SpecRecord)
RecordSteps == 2
\* calls on Writer(r) and Values(r) made for a request that passes through
\* two nested logHandlers (SpecNested)
NestedCalls == 2

\* ------------------------------------------------------- program constants
StatusOK == 200
StatusInternalServerError == 500
\* len("500 Internal Server Error\n"), the body http.Error prints
Len500 == 26

Requests == 1..NumRequests
\* status codes the wrapped handler passes to WriteHeader
HandlerStatuses == {321, 404}
\* body lengths the wrapped handler passes to Write
WriteLens == {0, 1}
\* counts the underlying ResponseWriter may return for a Write of l bytes:
\* all of them, or a short count together with an error
Accepts(l) == {n \in {l - 1, l} : n >= 0}
\* one Write on the shared output writer lands in two pieces
Pieces == <<"head", "tail">>
Chunks == Len(Pieces)

\* a nil pointer, interface or func value
Nil == "nil"
\* texts are sequences of tokens; the token " " is one space
\* texts the wrapped handler writes to weblogs.Writer(r)
ExtraTexts == {<<" ", "behere">>, <<"behere">>}
\* keys and values the wrapped handler stores in weblogs.Values(r)
ValueKeys == {"field1", "field2"}
ValueVals == {"one", "two"}
\* a key-value map: Nil marks a key that is not in the map
EmptyMap == [k \in ValueKeys |-> Nil]
\* the objects ServeHTTP allocates, named by the invocation allocating them
Refs == Requests
\* the absent object
NoRef == 0

VARIABLES
  pc,        \* position of each request inside logHandler.ServeHTTP
  capture,   \* loggers.Capture of each request: status, size, statusSet
  sink,      \* calls that reached each request's underlying ResponseWriter
  issued,    \* calls the wrapped handler issued on the Capture, with results
  panicking, \* a panic is in flight in the request's goroutine
  err,       \* value returned by recover(): TRUE for a non-nil panic value
  outcome,   \* how ServeHTTP left: "none", "returned" or "panicked"
  mutex,     \* h.mutex: 0 when free, else the request holding it
  wr,        \* pieces written by the holder of the mutex so far
  out,       \* the shared output writer h.w: sequence of pieces
  logged,    \* what Logger.Log read from the record: status and size
  logCalls,  \* number of Logger.Log invocations per request
  arrivals,  \* requests that may still arrive
  left,      \* Write/WriteHeader calls the handlers may still issue
  options,   \* the *Options given to HandlerWithOptions, or Nil
  h,         \* the logHandler's fields w, logger and now
  clock,     \* the time the time source returns when it is read
  request,   \* the live *http.Request of each request
  snapshot,  \* ServeHTTP's local snapshot
  additional, \* ServeHTTP's local additional: the *bytes.Buffer it made
  values,    \* ServeHTTP's local values: the map it made
  startTime, \* ServeHTTP's local startTime
  registry,  \* gorilla/context's data: request -> key -> value
  buffers,   \* contents of the bytes.Buffer objects
  maps,      \* contents of the key-value map objects
  side,      \* calls made on Writer(r) and Values(r), with their results
  readings,  \* the times h.now() returned to each request, in order
  records,   \* the LogRecord each request passed to writeLogRecord
  lines,     \* the text Logger.Log wrote for each request
  sideLeft,  \* side-channel, request and clock steps that may still happen
  steps      \* the calls the deferred function that ran last made, in order

\* the response path
respVars == <<capture, sink, issued, left>>
\* the handler's configuration and what it reads from its environment
envVars == <<options, h, clock, request>>
\* the side channel
sideVars == <<registry, buffers, maps, side, sideLeft>>
\* ServeHTTP's locals, and what its deferred function called
localVars == <<snapshot, additional, values, startTime, readings, steps>>

vars == <<pc, capture, sink, issued, panicking, err, outcome, mutex, wr, out,
          logged, logCalls, arrivals, left, options, h, clock, request,
          snapshot, additional, values, startTime, registry, buffers, maps,
          side, readings, records, lines, sideLeft, steps>>

\* ---------------------------------------------------------- loggers.Capture
NewCapture == [status |-> 0, size |-> 0, statusSet |-> FALSE]

\* faulty variant: every call overwrites the recorded status (last one wins)
maybeSetStatusLastWins(c, status) ==
  [c EXCEPT !.status = status, !.statusSet = TRUE]

maybeSetStatus(c, status) ==
  IF ~c.statusSet THEN [c EXCEPT !.status = status, !.statusSet = TRUE]
  ELSE c

HasStatus(c) == c.statusSet

\* a call on the underlying ResponseWriter, with what it returned
WriteHeaderCall(status) ==
  [op |-> "WriteHeader", arg |-> status, n |-> 0, err |-> FALSE]
WriteCall(l, n) ==
  [op |-> "Write", arg |-> l, n |-> n, err |-> n < l]

\* faulty variant: the size is the count of the last Write, not the sum
CaptureWriteLastCount(cw, l, n) ==
  [c |-> maybeSetStatus([cw.c EXCEPT !.size = n], StatusOK),
   w |-> Append(cw.w, WriteCall(l, n)),
   n |-> n, err |-> n < l]

\* faulty variant: counts the bytes passed in instead of the bytes written
CaptureWriteCountsLen(cw, l, n) ==
  [c |-> maybeSetStatus([cw.c EXCEPT !.size = @ + l], StatusOK),
   w |-> Append(cw.w, WriteCall(l, n)),
   n |-> n, err |-> n < l]

\* faulty variant: the status is recorded only when the Write took bytes
\* and returned no error
CaptureWriteStatusOnSuccess(cw, l, n) ==
  LET call == WriteCall(l, n)
      sized == [cw.c EXCEPT !.size = @ + call.n]
  IN [c |-> IF call.n > 0 /\ ~call.err THEN maybeSetStatus(sized, StatusOK)
            ELSE sized,
      w |-> Append(cw.w, call),
      n |-> call.n, err |-> call.err]

\* cw is a Capture together with its underlying ResponseWriter:
\* [c |-> capture fields, w |-> calls received by the ResponseWriter].
\* The ResponseWriter takes n of the l bytes; n and err are what Write
\* returns to its caller
CaptureWrite(cw, l, n) ==
  LET call == WriteCall(l, n)
  IN [c |-> maybeSetStatus([cw.c EXCEPT !.size = @ + call.n], StatusOK),
      w |-> Append(cw.w, call),
      n |-> call.n, err |-> call.err]

\* faulty variant: a WriteHeader that follows a recorded status is not forwarded
CaptureWriteHeaderOnce(cw, status) ==
  IF cw.c.statusSet THEN [c |-> cw.c, w |-> cw.w]
  ELSE [c |-> maybeSetStatus(cw.c, status),
        w |-> Append(cw.w, WriteHeaderCall(status))]

CaptureWriteHeader(cw, status) ==
  [c |-> maybeSetStatus(cw.c, status),
   w |-> Append(cw.w, WriteHeaderCall(status))]

\* faulty variant: the body of the 500 goes to the ResponseWriter behind the Capture
sendErrorUncounted(cw, status, n) ==
  [c |-> maybeSetStatus(cw.c, status),
   w |-> cw.w \o <<WriteHeaderCall(status), WriteCall(Len500, n)>>,
   n |-> n, err |-> n < Len500]

\* http.Error(w, "500 Internal Server Error", 500): WriteHeader, then the body
sendError(cw, status, n) ==
  CaptureWrite(CaptureWriteHeader(cw, status), Len500, n)

\* faulty variant: never synthesizes the 500
maybeSend500Never(cw, n) == cw

\* faulty variant: sends the 500 whether or not a status was recorded
maybeSend500Always(cw, n) == sendError(cw, StatusInternalServerError, n)

maybeSend500(cw, n) ==
  IF ~HasStatus(cw.c) THEN sendError(cw, StatusInternalServerError, n)
  ELSE [c |-> cw.c, w |-> cw.w]

\* faulty variant: the deferred function does not call recover()
NoRecover(p) == [err |-> FALSE, panicking |-> p]

\* recover() in the deferred function: stops the panic and returns its value
Recover(p) == [err |-> p, panicking |-> FALSE]

\* ------------------------------------------------- Options and the handler
\* a *Options is the empty sequence when nil, else holds the Options
kNoOptions == [Writer |-> Nil, Logger |-> Nil, Now |-> Nil]

writer(o) == IF o.Writer = Nil THEN "os.Stderr" ELSE o.Writer

logger(o) == IF o.Logger = Nil THEN "simpleLogger" ELSE o.Logger

now(o) == IF o.Now = Nil THEN "time.Now" ELSE o.Now

\* faulty variant: the fields of the logHandler are left unset
HandlerWithOptionsNoDefaults(o) ==
  LET opts == IF o = <<>> THEN kNoOptions ELSE o[1]
  IN [w |-> opts.Writer, logger |-> opts.Logger, now |-> opts.Now]

HandlerWithOptions(o) ==
  LET opts == IF o = <<>> THEN kNoOptions ELSE o[1]
  IN [w |-> writer(opts), logger |-> logger(opts), now |-> now(opts)]

\* Handler(handler) is HandlerWithOptions(handler, nil)
Handler == HandlerWithOptions(<<>>)

\* calling a nil func or a method of a nil interface panics
NilDeref(lh) == lh.logger = Nil \/ lh.now = Nil \/ lh.w = Nil

\* ------------------------------------------------------------------- time
\* a time.Time of the day of the tests: the second of the day, the
\* nanosecond of the second and the offset of its location
Second == 1000000000
Millisecond == 1000000
Microsecond == 1000
\* the day of the tests, March 23, 2013
Day == [year |-> 2013, month |-> 3, day |-> 23]
\* time.Date(2013, time.March, 23, 13, 14, 15, nsec, time.UTC)
Date(nsec) ==
  [sec |-> 13 * 3600 + 14 * 60 + 15, nsec |-> nsec, zone |-> "+0000"]

\* t.Add(d) for a duration of d nanoseconds, within the day
Add(t, d) ==
  [t EXCEPT !.sec = @ + (t.nsec + d) \div Second,
            !.nsec = (t.nsec + d) % Second]

\* t.Sub(u) in nanoseconds
Sub(t, u) == (t.sec - u.sec) * Second + (t.nsec - u.nsec)

Pad2(n) == IF n < 10 THEN "0" \o ToString(n) ELSE ToString(n)

MonthName(m) ==
  <<"Jan", "Feb", "Mar", "Apr", "May", "Jun",
    "Jul", "Aug", "Sep", "Oct", "Nov", "Dec">>[m]

\* the layout element 15:04:05
Clock150405(t) ==
  Pad2(t.sec \div 3600) \o ":" \o Pad2((t.sec \div 60) % 60) \o ":"
    \o Pad2(t.sec % 60)

\* the digits of n, a number below 10^w, padded to w digits
RECURSIVE Digits(_, _)
Digits(n, w) ==
  IF w = 0 THEN "" ELSE Digits(n \div 10, w - 1) \o ToString(n % 10)

\* the digits of a fraction of us microseconds with the trailing zeros
\* removed
RECURSIVE Frac9(_, _)
Frac9(us, w) ==
  IF us % 10 = 0 /\ w > 1 THEN Frac9(us \div 10, w - 1) ELSE Digits(us, w)

\* the layout element .999999: the fraction to the microsecond without its
\* trailing zeros, nothing when it is zero
Frac999999(t) ==
  LET us == t.nsec \div Microsecond
  IN IF us = 0 THEN <<>> ELSE <<"." \o Frac9(us, 6)>>

SimpleLayout == "01/02/2006 15:04:05"
MicrosLayout == "01/02/2006 15:04:05.999999"
ApacheLayout == "02/Jan/2006:15:04:05 -0700"

\* t.Format(layout) for the layouts the loggers use, as a text
Format(t, layout) ==
  CASE layout = SimpleLayout ->
         <<Pad2(Day.month) \o "/" \o Pad2(Day.day) \o "/"
             \o ToString(Day.year),
           " ", Clock150405(t)>>
    [] layout = MicrosLayout ->
         <<Pad2(Day.month) \o "/" \o Pad2(Day.day) \o "/"
             \o ToString(Day.year),
           " ", Clock150405(t)>> \o Frac999999(t)
    [] layout = ApacheLayout ->
         <<Pad2(Day.day) \o "/" \o MonthName(Day.month) \o "/"
             \o ToString(Day.year) \o ":" \o Clock150405(t),
           " ", t.zone>>

\* ------------------------------------------------ request and Snapshot
\* the *http.Request of the tests: newRequest(remoteAddr, "GET",
\* "/foo/bar?query=tall"), with its headers
newRequest(remoteAddr, referer, userAgent) ==
  [RemoteAddr |-> remoteAddr, Method |-> "GET", Proto |-> "HTTP/1.0",
   URL |-> [Path |-> "/foo/bar", RawQuery |-> "query=tall", User |-> Nil],
   Header |-> [Referer |-> referer, UserAgent |-> userAgent]]

\* what the wrapped handler may assign to a field of the live request
Mutations == {"Path", "Method", "RemoteAddr", "Referer", "UserAgent"}
Mutate(req, f) ==
  CASE f = "Path" -> [req EXCEPT !.URL.Path = "/HandlerMutatedRequest"]
    [] f = "Method" -> [req EXCEPT !.Method = "POST"]
    [] f = "RemoteAddr" -> [req EXCEPT !.RemoteAddr = <<"10.0.1.3">>]
    [] f = "Referer" -> [req EXCEPT !.Header.Referer = "mutated"]
    [] f = "UserAgent" -> [req EXCEPT !.Header.UserAgent = "mutated"]

NoSnapshot == [RemoteAddr |-> <<>>, Method |-> "", Proto |-> "",
               URL |-> [Path |-> "", RawQuery |-> "", User |-> Nil],
               Referer |-> "", UserAgent |-> ""]

\* loggers.NewSnapshot: the fields are copied, the URL by value
NewSnapshot(req) ==
  [RemoteAddr |-> req.RemoteAddr, Method |-> req.Method, Proto |-> req.Proto,
   URL |-> req.URL, Referer |-> req.Header.Referer,
   UserAgent |-> req.Header.UserAgent]

\* strings.LastIndex(remoteAddr, ":"), 0 when there is none
LastColon(remoteAddr) ==
  LET at == {i \in 1..Len(remoteAddr) : remoteAddr[i] = ":"}
  IN IF at = {} THEN 0 ELSE CHOOSE i \in at : \A j \in at : j <= i

StripPort(remoteAddr) ==
  IF LastColon(remoteAddr) # 0
    THEN SubSeq(remoteAddr, 1, LastColon(remoteAddr) - 1)
    ELSE remoteAddr

\* faulty variant: only the absent user info is written as "-"
ApacheUserNilOnly(user) == IF user # Nil THEN user ELSE "-"

ApacheUser(user) == IF user # Nil /\ user # "" THEN user ELSE "-"

\* (*url.URL).String() of a URL without scheme and host
URLString(u) ==
  (IF u.User # Nil THEN <<"//", u.User, "@">> ELSE <<>>)
    \o <<u.Path>> \o (IF u.RawQuery # "" THEN <<"?", u.RawQuery>> ELSE <<>>)

\* (*url.URL).RequestURI()
RequestURI(u) ==
  <<IF u.Path = "" THEN "/" ELSE u.Path>>
    \o (IF u.RawQuery # "" THEN <<"?", u.RawQuery>> ELSE <<>>)

\* ------------------------------------------------------------- the loggers
NoRecord == [T |-> Date(0), R |-> NoSnapshot, W |-> NoRef, Duration |-> 0,
             Extra |-> <<>>, Values |-> NoRef]

\* faulty variant: the snapshot is taken when the record is assembled
RecordSnapshotLate(snap, req) == NewSnapshot(req)

\* R: snapshot on line 174: the snapshot taken on line 160, whatever the
\* live request req has become since
RecordSnapshot(snap, req) == snap

\* faulty variant: the record is stamped with the reading taken at completion
NewLogRecordEndTime(start, end, snap, c, extra, vals) ==
  [T |-> end, R |-> snap, W |-> c, Duration |-> Sub(end, start),
   Extra |-> extra, Values |-> vals]

\* the LogRecord of lines 172-178; W and Values name the Capture and the
\* map, which the record shares with the handler
NewLogRecord(start, end, snap, c, extra, vals) ==
  [T |-> start, R |-> snap, W |-> c, Duration |-> Sub(end, start),
   Extra |-> extra, Values |-> vals]

\* faulty variant: "%d %s" puts a space between the duration and the extra text
simpleLoggerLogSpaced(log, c) ==
  Format(log.T, SimpleLayout) \o <<" ">> \o StripPort(log.R.RemoteAddr)
    \o <<" ", log.R.Method, " ">> \o URLString(log.R.URL)
    \o <<" ", ToString(c.status), " ",
         ToString(log.Duration \div Millisecond), " ">>
    \o log.Extra \o <<"\n">>

\* simpleLogger.Log: the text of "%s %s %s %s %d %d%s\n"; c is the Capture
\* the record points to
simpleLoggerLog(log, c) ==
  Format(log.T, SimpleLayout) \o <<" ">> \o StripPort(log.R.RemoteAddr)
    \o <<" ", log.R.Method, " ">> \o URLString(log.R.URL)
    \o <<" ", ToString(c.status), " ",
         ToString(log.Duration \div Millisecond)>>
    \o log.Extra \o <<"\n">>

\* apacheCommonLogger.Log without the final newline
ApacheCommonFields(log, c) ==
  StripPort(log.R.RemoteAddr) \o <<" ", "-", " ", ApacheUser(log.R.URL.User),
       " ", "[">> \o Format(log.T, ApacheLayout)
    \o <<"]", " ", "\"", log.R.Method, " ">> \o RequestURI(log.R.URL)
    \o <<" ", log.R.Proto, "\"", " ", ToString(c.status), " ",
         ToString(c.size)>>

apacheCommonLoggerLog(log, c) == ApacheCommonFields(log, c) \o <<"\n">>

apacheCombinedLoggerLog(log, c) ==
  ApacheCommonFields(log, c)
    \o <<" ", "\"", log.R.Referer, "\"", " ", "\"", log.R.UserAgent, "\"",
         "\n">>

Loggers == {"simpleLogger", "apacheCommonLogger", "apacheCombinedLogger"}

\* h.logger.Log(h.w, logRecord): the text the logger writes
Log(lg, log, c) ==
  CASE lg = "simpleLogger" -> simpleLoggerLog(log, c)
    [] lg = "apacheCommonLogger" -> apacheCommonLoggerLog(log, c)
    [] lg = "apacheCombinedLogger" -> apacheCombinedLoggerLog(log, c)

\* ---------------------------------------------------------- side channel
kNoEntries == [kBufferKey |-> NoRef, kValuesKey |-> NoRef]

\* faulty variant: one buffer, kept in the logHandler, serves every request
NewBufferShared(r) == 1

\* &bytes.Buffer{} on line 162: a new object
NewBuffer(r) == r

\* make(map[interface{}]interface{}) on line 163: a new object
NewValues(r) == r

\* weblogs.Writer(r): the registered buffer, or the nilWriter
Writer(reg, r) ==
  LET value == reg[r].kBufferKey
  IN IF value = NoRef THEN [kind |-> "nilWriter", ref |-> NoRef]
     ELSE [kind |-> "buffer", ref |-> value]

\* faulty variant: the map is looked up under a key that is never set
ValuesAlwaysNil(reg, r) == NoRef

\* faulty variant: an unregistered request is given a map of its own
ValuesNeverNil(reg, r) ==
  IF reg[r].kValuesKey = NoRef THEN r ELSE reg[r].kValuesKey

\* weblogs.Values(r): the registered map, or nil
Values(reg, r) == reg[r].kValuesKey

\* faulty variant: the nilWriter returns its unset results, 0 and nil
WriterWriteNilZero(bufs, w, p) ==
  IF w.kind = "nilWriter" THEN [bufs |-> bufs, n |-> 0, err |-> FALSE]
  ELSE [bufs |-> [bufs EXCEPT ![w.ref] = @ \o p], n |-> Len(p),
        err |-> FALSE]

\* Write of the text p on the writer w: what it returns (the length is
\* counted in tokens) and the contents of the buffers afterwards
WriterWrite(bufs, w, p) ==
  IF w.kind = "nilWriter" THEN [bufs |-> bufs, n |-> Len(p), err |-> FALSE]
  ELSE [bufs |-> [bufs EXCEPT ![w.ref] = @ \o p], n |-> Len(p),
        err |-> FALSE]

\* ------------------------------------------------------ the output writer
\* the writers a handler may log to: one that takes every Write, like the
\* bytes.Buffer of the tests, and one whose Write writes nothing and
\* returns an error, like a file on a full disk
SinkWriters == {"buf", "errWriter"}

\* the Write of the writer w returns an error
WriteFails(w) == w = "errWriter"

\* the output writer after a piece was written to the writer w
WriteOut(w, o, piece) == IF WriteFails(w) THEN o ELSE Append(o, piece)

\* faulty variant: an error of the output writer is raised as a panic
PropagatesError(e) == e

\* whether an error e returned by the output writer's Write leaves
\* Logger.Log or writePanic as a panic: the results of fmt.Fprintf and of
\* h.w.Write are discarded
Propagates(e) == FALSE

\* ------------------------------------------------------------------- Init
InitRequests ==
  /\ pc = [r \in Requests |-> "idle"]
  /\ capture = [r \in Requests |-> NewCapture]
  /\ sink = [r \in Requests |-> <<>>]
  /\ issued = [r \in Requests |-> <<>>]
  /\ panicking = [r \in Requests |-> FALSE]
  /\ err = [r \in Requests |-> FALSE]
  /\ outcome = [r \in Requests |-> "none"]
  /\ mutex = 0
  /\ wr = 0
  /\ out = <<>>
  /\ logged = [r \in Requests |->
                [status |-> 0, size |-> 0, values |-> EmptyMap]]
  /\ logCalls = [r \in Requests |-> 0]
  /\ snapshot = [r \in Requests |-> NoSnapshot]
  /\ additional = [r \in Requests |-> NoRef]
  /\ values = [r \in Requests |-> NoRef]
  /\ startTime = [r \in Requests |-> Date(0)]
  /\ registry = [r \in Requests |-> kNoEntries]
  /\ buffers = [b \in Refs |-> <<>>]
  /\ maps = [m \in Refs |-> EmptyMap]
  /\ side = [r \in Requests |-> <<>>]
  /\ readings = [r \in Requests |-> <<>>]
  /\ records = [r \in Requests |-> NoRecord]
  /\ lines = [r \in Requests |-> <<>>]
  /\ steps = <<>>

\* the configuration of the tests: the log goes to a buffer, the logger is
\* the default one, the clock is injected and shows kTime
kTime == Date(123456789)
TestOptions == <<[Writer |-> "buf", Logger |-> Nil, Now |-> "clock.Now"]>>
TestRemoteAddr == <<"192.168.5.1", ":", "3333">>
TestRequest == newRequest(TestRemoteAddr, "referer", "useragent")
InitTest ==
  /\ options = TestOptions
  /\ h = HandlerWithOptions(options)
  /\ clock = kTime
  /\ request = [r \in Requests |-> TestRequest]

\* every request arrives; they are served concurrently
Init ==
  /\ InitRequests
  /\ InitTest
  /\ arrivals = NumRequests
  /\ left = ConcCalls
  /\ sideLeft = 0

\* one request arrives and is served alone
InitSingle ==
  /\ InitRequests
  /\ InitTest
  /\ arrivals = 1
  /\ left = MaxCalls
  /\ sideLeft = 0

\* every request arrives; they are served concurrently by handlers that
\* use the side channel
InitSide ==
  /\ InitRequests
  /\ InitTest
  /\ arrivals = NumRequests
  /\ left = 0
  /\ sideLeft = SideCalls

\* the loggers a test may configure
RecordLoggers == {Nil, "apacheCombinedLogger"}
\* one request arrives and is served alone by a handler that uses the
\* side channel, assigns to the request and advances the clock
InitRecord ==
  /\ InitRequests
  /\ \E lg \in RecordLoggers :
       options = <<[Writer |-> "buf", Logger |-> lg, Now |-> "clock.Now"]>>
  /\ h = HandlerWithOptions(options)
  /\ clock = kTime
  /\ request = [r \in Requests |-> TestRequest]
  /\ arrivals = 1
  /\ left = ConcCalls
  /\ sideLeft = RecordSteps

\* the *Options a caller may pass to HandlerWithOptions
OptionsSet ==
  {<<>>} \cup {<<[Writer |-> w, Logger |-> lg, Now |-> nw]>> :
                 w \in {Nil, "buf"}, lg \in {Nil} \cup Loggers,
                 nw \in {Nil, "clock.Now"}}

\* one request arrives at a handler built from any Options
InitOptions ==
  /\ InitRequests
  /\ options \in OptionsSet
  /\ h = HandlerWithOptions(options)
  /\ clock = kTime
  /\ request = [r \in Requests |-> TestRequest]
  /\ arrivals = 1
  /\ left = ConcCalls
  /\ sideLeft = 0

\* the locations of the times a time source returns: time.Now returns
\* local time, the clock of the tests UTC
Zones == {"+0000", "-0700"}
\* time.Date(2013, time.March, 23, 13, 14, 15, nsec, loc) for the location
\* with the offset zone
DateIn(nsec, zone) == [Date(nsec) EXCEPT !.zone = zone]
\* the hosts and ports of the remote addresses: an IPv4 host, an IPv6 host
\* in brackets, and no port or a port
Hosts == {<<"10.0.1.3">>, <<"[", ":", ":", "1", "]">>}
Ports == {"", "4050"}
\* host, or host:port, as net.JoinHostPort writes a remote address
JoinHostPort(host, port) ==
  IF port = "" THEN host ELSE host \o <<":", port>>
RemoteAddrs == {JoinHostPort(host, port) : host \in Hosts, port \in Ports}
\* the user names of the URL's user info: none, url.User("") and
\* url.User("fred")
Users == {Nil, "", "fred"}
ApacheLoggers == {"apacheCommonLogger", "apacheCombinedLogger"}

\* one request arrives at a handler that logs in an Apache format; it comes
\* from any remote address as any user, and the time source shows a time
\* of any location
InitApache ==
  /\ InitRequests
  /\ \E lg \in ApacheLoggers :
       options = <<[Writer |-> "buf", Logger |-> lg, Now |-> "clock.Now"]>>
  /\ h = HandlerWithOptions(options)
  /\ \E zone \in Zones : clock = DateIn(123456789, zone)
  /\ \E addr \in RemoteAddrs : \E user \in Users :
       request = [r \in Requests |->
         [newRequest(addr, "referer", "useragent") EXCEPT !.URL.User = user]]
  /\ arrivals = 1
  /\ left = ConcCalls
  /\ sideLeft = 0

\* every request arrives; they are served concurrently by handlers that
\* leave the response alone
InitFair ==
  /\ InitRequests
  /\ InitTest
  /\ arrivals = NumRequests
  /\ left = 0
  /\ sideLeft = 0

\* one request arrives at a handler that logs to a writer that takes
\* every Write or to one that fails
InitSink ==
  /\ InitRequests
  /\ \E w \in SinkWriters :
       options = <<[Writer |-> w, Logger |-> Nil, Now |-> "clock.Now"]>>
  /\ h = HandlerWithOptions(options)
  /\ clock = kTime
  /\ request = [r \in Requests |-> TestRequest]
  /\ arrivals = 1
  /\ left = ConcCalls
  /\ sideLeft = 0

\* Handler(Handler(handler, w), w): the invocation of the outer
\* logHandler's ServeHTTP, and the one of the inner logHandler to which the
\* outer one passes its Capture and the same *http.Request
Outer == CHOOSE r \in Requests : \A q \in Requests : r <= q
Inner == Outer + 1

\* one request arrives at the outer of two nested logHandlers built from
\* the same options; the code they wrap uses the side channel.  The inner
\* ServeHTTP has returned before the outer one logs, so the two mutexes
\* are never wanted at the same time and the variable mutex stands for
\* both
InitNested ==
  /\ InitRequests
  /\ InitTest
  /\ arrivals = 2
  /\ left = 0
  /\ sideLeft = NestedCalls

\* ---------------------------------------------------- logHandler.ServeHTTP
\* lines 160-166 and the call of the wrapped handler on line 183
Start(r) ==
  /\ pc[r] = "idle"
  /\ arrivals > 0
  /\ arrivals' = arrivals - 1
  /\ IF NilDeref(h)
       THEN /\ pc' = [pc EXCEPT ![r] = "done"]
            /\ outcome' = [outcome EXCEPT ![r] = "panicked"]
            /\ UNCHANGED <<capture, localVars, registry, buffers, maps>>
       ELSE /\ pc' = [pc EXCEPT ![r] = "handler"]
            /\ snapshot' = [snapshot EXCEPT ![r] = NewSnapshot(request[r])]
            /\ capture' = [capture EXCEPT ![r] = NewCapture]
            /\ additional' = [additional EXCEPT ![r] = NewBuffer(r)]
            /\ values' = [values EXCEPT ![r] = NewValues(r)]
            /\ buffers' = [buffers EXCEPT ![NewBuffer(r)] = <<>>]
            /\ maps' = [maps EXCEPT ![NewValues(r)] = EmptyMap]
            /\ registry' = [registry EXCEPT ![r] =
                 [kBufferKey |-> NewBuffer(r), kValuesKey |-> NewValues(r)]]
            /\ startTime' = [startTime EXCEPT ![r] = clock]
            /\ readings' = [readings EXCEPT ![r] = Append(@, clock)]
            /\ UNCHANGED <<outcome, steps>>
  /\ UNCHANGED <<sink, issued, panicking, err, mutex, wr, out, logged,
                 logCalls, left, envVars, side, sideLeft, records, lines>>

\* the wrapped handler calls WriteHeader(status) on the Capture
HandlerWriteHeader(r, status) ==
  /\ pc[r] = "handler"
  /\ left > 0
  /\ LET cw == CaptureWriteHeader([c |-> capture[r], w |-> sink[r]], status)
     IN /\ capture' = [capture EXCEPT ![r] = cw.c]
        /\ sink' = [sink EXCEPT ![r] = cw.w]
  /\ issued' = [issued EXCEPT ![r] = Append(@, WriteHeaderCall(status))]
  /\ left' = left - 1
  /\ UNCHANGED <<pc, panicking, err, outcome, mutex, wr, out, logged,
                 logCalls, arrivals, envVars, sideVars, localVars, records,
                 lines>>

\* the wrapped handler calls Write on the Capture with l bytes; the
\* underlying ResponseWriter accepts n of them
HandlerWrite(r, l, n) ==
  /\ pc[r] = "handler"
  /\ left > 0
  /\ LET cw == CaptureWrite([c |-> capture[r], w |-> sink[r]], l, n)
     IN /\ capture' = [capture EXCEPT ![r] = cw.c]
        /\ sink' = [sink EXCEPT ![r] = cw.w]
        /\ issued' = [issued EXCEPT ![r] = Append(@,
             [op |-> "Write", arg |-> l, n |-> cw.n, err |-> cw.err])]
  /\ left' = left - 1
  /\ UNCHANGED <<pc, panicking, err, outcome, mutex, wr, out, logged,
                 logCalls, arrivals, envVars, sideVars, localVars, records,
                 lines>>

\* a call on the side channel of request r, with what it returned; hit
\* tells whether the request was registered, at where the request stood
SideCall(r, op, hit, text, key, val, n) ==
  [op |-> op, at |-> pc[r], hit |-> hit, text |-> text, key |-> key,
   val |-> val, n |-> n, err |-> FALSE]

\* fmt.Fprintf(weblogs.Writer(r), ...): the text p is written to the writer
\* Writer(r) returns
FprintfWriter(r, p) ==
  /\ sideLeft > 0
  /\ LET w == Writer(registry, r)
         res == WriterWrite(buffers, w, p)
     IN /\ buffers' = res.bufs
        /\ side' = [side EXCEPT ![r] = Append(@,
             SideCall(r, "Writer", w.kind = "buffer", p, "", "", res.n))]
  /\ sideLeft' = sideLeft - 1
  /\ UNCHANGED <<pc, respVars, panicking, err, outcome, mutex, wr, out,
                 logged, logCalls, arrivals, envVars, registry, maps,
                 localVars, records, lines>>

\* values := weblogs.Values(r); if values != nil { values[k] = v }
ValuesSet(r, k, v) ==
  /\ sideLeft > 0
  /\ LET m == Values(registry, r)
     IN /\ maps' = IF m = NoRef THEN maps ELSE [maps EXCEPT ![m][k] = v]
        /\ side' = [side EXCEPT ![r] = Append(@,
             SideCall(r, "Values", m # NoRef, <<>>, k, v, 0))]
  /\ sideLeft' = sideLeft - 1
  /\ UNCHANGED <<pc, respVars, panicking, err, outcome, mutex, wr, out,
                 logged, logCalls, arrivals, envVars, registry, buffers,
                 localVars, records, lines>>

\* the wrapped handler writes extra text for its request
WriteExtra(r, p) == pc[r] = "handler" /\ FprintfWriter(r, p)

\* the wrapped handler sets a key-value pair for its request
SetValue(r, k, v) == pc[r] = "handler" /\ ValuesSet(r, k, v)

\* code that holds a request no logHandler is serving, because none was
\* given it or because ServeHTTP has returned, writes extra text for it
OutsideWrite(r, p) == pc[r] \in {"idle", "done"} /\ FprintfWriter(r, p)

\* such code asks for the key-value pairs of the request
OutsideValues(r, k, v) == pc[r] \in {"idle", "done"} /\ ValuesSet(r, k, v)

\* the wrapped handler assigns to a field of the live request
HandlerMutate(r, f) ==
  /\ pc[r] = "handler"
  /\ sideLeft > 0
  /\ request' = [request EXCEPT ![r] = Mutate(@, f)]
  /\ sideLeft' = sideLeft - 1
  /\ UNCHANGED <<pc, respVars, panicking, err, outcome, mutex, wr, out,
                 logged, logCalls, arrivals, options, h, clock, registry,
                 buffers, maps, side, localVars, records, lines>>

\* the times the wrapped handler lets pass on the injected clock
Elapsed == {387 * Millisecond, 1500 * Microsecond}

\* the wrapped handler advances the injected clock by d nanoseconds
HandlerAddMillis(r, d) ==
  /\ pc[r] = "handler"
  /\ sideLeft > 0
  /\ clock' = Add(clock, d)
  /\ sideLeft' = sideLeft - 1
  /\ UNCHANGED <<pc, respVars, panicking, err, outcome, mutex, wr, out,
                 logged, logCalls, arrivals, options, h, request, registry,
                 buffers, maps, side, localVars, records, lines>>

\* the calls of the deferred function before it assembles the LogRecord,
\* lines 168-170, in the order it makes them
DeferredCalls == <<"h.now", "recover", "maybeSend500">>

\* faulty variant: the record is written after the handler's call instead of in a
\* deferred function, so a panic skips it
DeferredSkippedByPanic(r, p, n) ==
  /\ pc[r] = "handler"
  /\ LET cw == maybeSend500([c |-> capture[r], w |-> sink[r]], n)
     IN /\ capture' = [capture EXCEPT ![r] = cw.c]
        /\ sink' = [sink EXCEPT ![r] = cw.w]
  /\ pc' = [pc EXCEPT ![r] = IF p THEN "done" ELSE "logLock"]
  /\ outcome' = [outcome EXCEPT ![r] = IF p THEN "panicked" ELSE @]
  /\ readings' = [readings EXCEPT ![r] = IF p THEN @ ELSE Append(@, clock)]
  /\ steps' = DeferredCalls
  /\ records' = [records EXCEPT ![r] =
       IF p THEN @
       ELSE NewLogRecord(startTime[r], clock,
                         RecordSnapshot(snapshot[r], request[r]), r,
                         buffers[additional[r]], values[r])]
  /\ UNCHANGED <<issued, panicking, err, mutex, wr, out, logged, logCalls,
                 arrivals, left, envVars, sideVars, snapshot, additional,
                 values, startTime, lines>>

\* faulty variant: after a panic the record is assembled without the side channel
DeferredPanicDropsSide(r, p, n) ==
  /\ pc[r] = "handler"
  /\ LET rec == Recover(p)
         cw == maybeSend500([c |-> capture[r], w |-> sink[r]], n)
     IN /\ err' = [err EXCEPT ![r] = rec.err]
        /\ panicking' = [panicking EXCEPT ![r] = rec.panicking]
        /\ capture' = [capture EXCEPT ![r] = cw.c]
        /\ sink' = [sink EXCEPT ![r] = cw.w]
  /\ readings' = [readings EXCEPT ![r] = Append(@, clock)]
  /\ steps' = DeferredCalls
  /\ records' = [records EXCEPT ![r] =
       NewLogRecord(startTime[r], clock,
                    RecordSnapshot(snapshot[r], request[r]), r,
                    IF p THEN <<>> ELSE buffers[additional[r]], values[r])]
  /\ pc' = [pc EXCEPT ![r] = "logLock"]
  /\ UNCHANGED <<issued, outcome, mutex, wr, out, logged, logCalls, arrivals,
                 left, envVars, sideVars, snapshot, additional, values,
                 startTime, lines>>

\* deferred function, lines 168-178, run when the wrapped handler has
\* finished: h.now(), recover(), maybeSend500(capture) and the assembly of
\* the LogRecord.  p tells whether the handler panicked, n is what the
\* ResponseWriter accepts of the synthesized body
Deferred(r, p, n) ==
  /\ pc[r] = "handler"
  /\ LET rec == Recover(p)
         cw == maybeSend500([c |-> capture[r], w |-> sink[r]], n)
     IN /\ err' = [err EXCEPT ![r] = rec.err]
        /\ panicking' = [panicking EXCEPT ![r] = rec.panicking]
        /\ capture' = [capture EXCEPT ![r] = cw.c]
        /\ sink' = [sink EXCEPT ![r] = cw.w]
  /\ readings' = [readings EXCEPT ![r] = Append(@, clock)]
  /\ steps' = DeferredCalls
  /\ records' = [records EXCEPT ![r] =
       NewLogRecord(startTime[r], clock,
                    RecordSnapshot(snapshot[r], request[r]), r,
                    buffers[additional[r]], values[r])]
  /\ pc' = [pc EXCEPT ![r] = "logLock"]
  /\ UNCHANGED <<issued, outcome, mutex, wr, out, logged, logCalls, arrivals,
                 left, envVars, sideVars, snapshot, additional, values,
                 startTime, lines>>

\* the wrapped handler returns normally (line 183)
HandlerReturn(r) ==
  \E n \in (IF HasStatus(capture[r]) THEN {0} ELSE Accepts(Len500)) :
    Deferred(r, FALSE, n)

\* the wrapped handler panics, at any point of its execution
HandlerPanic(r) ==
  \E n \in (IF HasStatus(capture[r]) THEN {0} ELSE Accepts(Len500)) :
    Deferred(r, TRUE, n)

\* ServeHTTP leaves: normally, or with the panic still in flight
Leave(r) == IF panicking[r] THEN "panicked" ELSE "returned"

\* the pieces of the request's text as they land on the output writer
LogPiece(r, k) == [req |-> r, kind |-> "log", k |-> k]
PanicPiece(r, k) ==
  IF k <= Chunks THEN [req |-> r, kind |-> "panic", k |-> k]
  ELSE [req |-> r, kind |-> "stack", k |-> k - Chunks]

\* faulty variant: writeLogRecord does not take the mutex
LogLockNoMutex(r) ==
  /\ pc[r] = "logLock"
  /\ mutex' = r
  /\ logCalls' = [logCalls EXCEPT ![r] = @ + 1]
  /\ logged' = [logged EXCEPT ![r] =
       [status |-> capture[r].status, size |-> capture[r].size,
        values |-> maps[records[r].Values]]]
  /\ lines' = [lines EXCEPT ![r] = Log(h.logger, records[r], capture[r])]
  /\ out' = WriteOut(h.w, out, LogPiece(r, 1))
  /\ wr' = 1
  /\ pc' = [pc EXCEPT ![r] = "logWrite"]
  /\ UNCHANGED <<respVars, panicking, err, outcome, arrivals, envVars,
                 sideVars, localVars, records>>

\* faulty variant: the log line is written only when no wrapped handler is running
LogLockAfterHandlers(r) ==
  /\ pc[r] = "logLock"
  /\ mutex = 0
  /\ \A q \in Requests : pc[q] # "handler"
  /\ mutex' = r
  /\ logCalls' = [logCalls EXCEPT ![r] = @ + 1]
  /\ logged' = [logged EXCEPT ![r] =
       [status |-> capture[r].status, size |-> capture[r].size,
        values |-> maps[records[r].Values]]]
  /\ lines' = [lines EXCEPT ![r] = Log(h.logger, records[r], capture[r])]
  /\ out' = WriteOut(h.w, out, LogPiece(r, 1))
  /\ wr' = 1
  /\ pc' = [pc EXCEPT ![r] = "logWrite"]
  /\ UNCHANGED <<respVars, panicking, err, outcome, arrivals, envVars,
                 sideVars, localVars, records>>

\* writeLogRecord, lines 187-189: h.mutex.Lock(), then h.logger.Log(h.w,
\* logRecord) renders the line from the record and starts writing it
LogLock(r) ==
  /\ pc[r] = "logLock"
  /\ mutex = 0
  /\ mutex' = r
  /\ logCalls' = [logCalls EXCEPT ![r] = @ + 1]
  /\ logged' = [logged EXCEPT ![r] =
       [status |-> capture[r].status, size |-> capture[r].size,
        values |-> maps[records[r].Values]]]
  /\ lines' = [lines EXCEPT ![r] = Log(h.logger, records[r], capture[r])]
  /\ out' = WriteOut(h.w, out, LogPiece(r, 1))
  /\ wr' = 1
  /\ pc' = [pc EXCEPT ![r] = "logWrite"]
  /\ UNCHANGED <<respVars, panicking, err, outcome, arrivals, envVars,
                 sideVars, localVars, records>>

\* faulty variant: the panic is swallowed without being written
AfterLogNoPanic(e) == "done"

\* what follows writeLogRecord in the deferred function, lines 179-182:
\* writePanic when recover() returned a value, else ServeHTTP is left
AfterLog(e) == IF e THEN "panicLock" ELSE "done"

\* writeLogRecord, lines 188-189: the rest of the line lands, Log returns
\* and the deferred h.mutex.Unlock() runs
LogUnlock(r) ==
  /\ pc[r] = "logWrite"
  /\ mutex = r
  /\ out' = WriteOut(h.w, out, LogPiece(r, wr + 1))
  /\ mutex' = 0
  /\ wr' = 0
  /\ pc' = [pc EXCEPT ![r] =
       IF Propagates(WriteFails(h.w)) THEN "done" ELSE AfterLog(err[r])]
  /\ outcome' = [outcome EXCEPT ![r] =
       IF Propagates(WriteFails(h.w)) THEN "panicked"
       ELSE IF AfterLog(err[r]) = "done" THEN Leave(r) ELSE @]
  /\ UNCHANGED <<respVars, panicking, err, logged, logCalls, arrivals,
                 envVars, sideVars, localVars, records, lines>>

\* writePanic, lines 194-196: h.mutex.Lock(), then fmt.Fprintf(h.w,
\* "Panic: %v\n", panicError) starts writing
PanicLock(r) ==
  /\ pc[r] = "panicLock"
  /\ mutex = 0
  /\ mutex' = r
  /\ out' = WriteOut(h.w, out, PanicPiece(r, 1))
  /\ wr' = 1
  /\ pc' = [pc EXCEPT ![r] = "panicWrite"]
  /\ UNCHANGED <<respVars, panicking, err, outcome, logged, logCalls,
                 arrivals, envVars, sideVars, localVars, records, lines>>

\* writePanic, lines 196-197: the rest of the "Panic:" line and the start
\* of h.w.Write(debugStack) land
PanicWrite(r) ==
  /\ pc[r] = "panicWrite"
  /\ mutex = r
  /\ wr + 1 < 2 * Chunks
  /\ out' = WriteOut(h.w, out, PanicPiece(r, wr + 1))
  /\ wr' = wr + 1
  /\ UNCHANGED <<pc, respVars, panicking, err, outcome, mutex, logged,
                 logCalls, arrivals, envVars, sideVars, localVars, records,
                 lines>>

\* writePanic, lines 195-197: the rest of the stack lands, the deferred
\* h.mutex.Unlock() runs and ServeHTTP is left
PanicUnlock(r) ==
  /\ pc[r] = "panicWrite"
  /\ mutex = r
  /\ wr + 1 = 2 * Chunks
  /\ out' = WriteOut(h.w, out, PanicPiece(r, wr + 1))
  /\ mutex' = 0
  /\ wr' = 0
  /\ pc' = [pc EXCEPT ![r] = "done"]
  /\ outcome' = [outcome EXCEPT ![r] =
       IF Propagates(WriteFails(h.w)) THEN "panicked" ELSE Leave(r)]
  /\ UNCHANGED <<respVars, panicking, err, logged, logCalls, arrivals,
                 envVars, sideVars, localVars, records, lines>>

\* faulty variant: Unlock is called after the writes instead of deferred,
\* and a panic skips it
UnlockSkippedByPanic(holder) == holder

\* h.mutex after a panic has left writeLogRecord or writePanic while
\* holder had it locked: "defer h.mutex.Unlock()" on lines 188 and 195 runs
\* as the panic unwinds the function
UnlockOnPanic(holder) == 0

\* writeLogRecord, lines 187-189: Logger.Log, or the Write of h.w it calls,
\* panics after part of the line was written; the deferred Unlock runs and
\* the panic leaves the deferred function of ServeHTTP, which has called
\* recover() already, and ServeHTTP itself: writePanic is not reached
LogPanics(r) ==
  /\ pc[r] = "logWrite"
  /\ mutex = r
  /\ mutex' = UnlockOnPanic(mutex)
  /\ wr' = 0
  /\ pc' = [pc EXCEPT ![r] = "done"]
  /\ panicking' = [panicking EXCEPT ![r] = TRUE]
  /\ outcome' = [outcome EXCEPT ![r] = "panicked"]
  /\ UNCHANGED <<respVars, err, out, logged, logCalls, arrivals, envVars,
                 sideVars, localVars, records, lines>>

\* writePanic, lines 194-197: fmt.Fprintf or h.w.Write panics after part
\* of the text was written; the deferred Unlock runs and the panic leaves
\* ServeHTTP
WritePanicPanics(r) ==
  /\ pc[r] = "panicWrite"
  /\ mutex = r
  /\ mutex' = UnlockOnPanic(mutex)
  /\ wr' = 0
  /\ pc' = [pc EXCEPT ![r] = "done"]
  /\ panicking' = [panicking EXCEPT ![r] = TRUE]
  /\ outcome' = [outcome EXCEPT ![r] = "panicked"]
  /\ UNCHANGED <<respVars, err, out, logged, logCalls, arrivals, envVars,
                 sideVars, localVars, records, lines>>

\* faulty variant: an entry that is registered already is kept
contextSetIfAbsent(reg, r, key, val) ==
  IF reg[r][key] # NoRef THEN reg ELSE [reg EXCEPT ![r][key] = val]

\* context.Set(r, key, val) on lines 164-165: the entry of the request
\* under the key is val from now on, whatever it was
contextSet(reg, r, key, val) == [reg EXCEPT ![r][key] = val]

\* the calls a Capture forwards reach the Capture cw that is its
\* ResponseWriter, in order
RECURSIVE Through(_, _)
Through(cw, calls) ==
  IF calls = <<>> THEN cw
  ELSE LET c == Head(calls)
           res == IF c.op = "WriteHeader" THEN CaptureWriteHeader(cw, c.arg)
                  ELSE CaptureWrite(cw, c.arg, c.n)
       IN Through([c |-> res.c, w |-> res.w], Tail(calls))

\* lines 160-166 of the inner logHandler, called by the code the outer one
\* wraps with the request the outer one registered: its own snapshot,
\* Capture, buffer and map, and context.Set under the same two keys of the
\* same request
StartInner ==
  /\ pc[Outer] = "handler"
  /\ pc[Inner] = "idle"
  /\ arrivals > 0
  /\ arrivals' = arrivals - 1
  /\ pc' = [pc EXCEPT ![Inner] = "handler"]
  /\ snapshot' = [snapshot EXCEPT ![Inner] = NewSnapshot(request[Outer])]
  /\ capture' = [capture EXCEPT ![Inner] = NewCapture]
  /\ additional' = [additional EXCEPT ![Inner] = NewBuffer(Inner)]
  /\ values' = [values EXCEPT ![Inner] = NewValues(Inner)]
  /\ buffers' = [buffers EXCEPT ![NewBuffer(Inner)] = <<>>]
  /\ maps' = [maps EXCEPT ![NewValues(Inner)] = EmptyMap]
  /\ registry' =
       contextSet(contextSet(registry, Outer, "kBufferKey", NewBuffer(Inner)),
                  Outer, "kValuesKey", NewValues(Inner))
  /\ startTime' = [startTime EXCEPT ![Inner] = clock]
  /\ readings' = [readings EXCEPT ![Inner] = Append(@, clock)]
  /\ UNCHANGED <<sink, issued, panicking, err, outcome, mutex, wr, out,
                 logged, logCalls, left, envVars, side, sideLeft, records,
                 lines, steps>>

\* code that runs inside the outer logHandler (before the inner one is
\* called, inside it while its wrapped handler runs, or after it has
\* returned) writes extra text to Writer(r) of the request; the call is
\* recorded with where the inner invocation stood
NestedWrite(p) ==
  /\ pc[Outer] = "handler"
  /\ pc[Inner] \in {"idle", "handler", "done"}
  /\ sideLeft > 0
  /\ LET w == Writer(registry, Outer)
         res == WriterWrite(buffers, w, p)
     IN /\ buffers' = res.bufs
        /\ side' = [side EXCEPT ![Outer] = Append(@,
             SideCall(Inner, "Writer", w.kind = "buffer", p, "", "", res.n))]
  /\ sideLeft' = sideLeft - 1
  /\ UNCHANGED <<pc, respVars, panicking, err, outcome, mutex, wr, out,
                 logged, logCalls, arrivals, envVars, registry, maps,
                 localVars, records, lines>>

\* such code stores a key-value pair in Values(r) of the request
NestedSet(k, v) ==
  /\ pc[Outer] = "handler"
  /\ pc[Inner] \in {"idle", "handler", "done"}
  /\ sideLeft > 0
  /\ LET m == Values(registry, Outer)
     IN /\ maps' = IF m = NoRef THEN maps ELSE [maps EXCEPT ![m][k] = v]
        /\ side' = [side EXCEPT ![Outer] = Append(@,
             SideCall(Inner, "Values", m # NoRef, <<>>, k, v, 0))]
  /\ sideLeft' = sideLeft - 1
  /\ UNCHANGED <<pc, respVars, panicking, err, outcome, mutex, wr, out,
                 logged, logCalls, arrivals, envVars, registry, buffers,
                 localVars, records, lines>>

\* the handler the inner logHandler wraps returns: the inner deferred
\* function, lines 168-178.  The ResponseWriter of the inner Capture is the
\* outer Capture, so the calls of a synthesized 500 pass through it, and
\* the inner record takes the text of the inner buffer
InnerReturn(n) ==
  /\ pc[Inner] = "handler"
  /\ LET rec == Recover(FALSE)
         cw == maybeSend500([c |-> capture[Inner], w |-> sink[Inner]], n)
         sent == SubSeq(cw.w, Len(sink[Inner]) + 1, Len(cw.w))
         up == Through([c |-> capture[Outer], w |-> sink[Outer]], sent)
     IN /\ err' = [err EXCEPT ![Inner] = rec.err]
        /\ panicking' = [panicking EXCEPT ![Inner] = rec.panicking]
        /\ capture' = [capture EXCEPT ![Inner] = cw.c, ![Outer] = up.c]
        /\ sink' = [sink EXCEPT ![Inner] = cw.w, ![Outer] = up.w]
  /\ readings' = [readings EXCEPT ![Inner] = Append(@, clock)]
  /\ steps' = DeferredCalls
  /\ records' = [records EXCEPT ![Inner] =
       NewLogRecord(startTime[Inner], clock,
                    RecordSnapshot(snapshot[Inner], request[Outer]), Inner,
                    buffers[additional[Inner]], values[Inner])]
  /\ pc' = [pc EXCEPT ![Inner] = "logLock"]
  /\ UNCHANGED <<issued, outcome, mutex, wr, out, logged, logCalls, arrivals,
                 left, envVars, sideVars, snapshot, additional, values,
                 startTime, lines>>

\* the code the outer logHandler wraps returns, once the inner ServeHTTP,
\* if it was called, has returned
OuterReturn ==
  /\ pc[Inner] \in {"idle", "done"}
  /\ HandlerReturn(Outer)

Next ==
  \E r \in Requests :
    \/ Start(r)
    \/ \E s \in HandlerStatuses : HandlerWriteHeader(r, s)
    \/ \E l \in WriteLens : \E n \in Accepts(l) : HandlerWrite(r, l, n)
    \/ HandlerReturn(r)
    \/ HandlerPanic(r)
    \/ LogLock(r)
    \/ LogUnlock(r)
    \/ PanicLock(r)
    \/ PanicWrite(r)
    \/ PanicUnlock(r)

Spec == Init /\ [][Next]_vars

SpecSingle == InitSingle /\ [][Next]_vars

SpecOptions == InitOptions /\ [][Next]_vars

SpecSink == InitSink /\ [][Next]_vars

\* handlers that use the side channel and return
NextSide ==
  \E r \in Requests :
    \/ Start(r)
    \/ \E p \in ExtraTexts : WriteExtra(r, p)
    \/ \E k \in ValueKeys : \E v \in ValueVals : SetValue(r, k, v)
    \/ \E p \in ExtraTexts : OutsideWrite(r, p)
    \/ \E k \in ValueKeys : \E v \in ValueVals : OutsideValues(r, k, v)
    \/ HandlerReturn(r)
    \/ LogLock(r)
    \/ LogUnlock(r)

SpecSide == InitSide /\ [][NextSide]_vars

\* handlers that set a status, use the side channel, assign to the request
\* and advance the clock, and then return or panic
NextRecord ==
  \E r \in Requests :
    \/ Start(r)
    \/ \E s \in HandlerStatuses : HandlerWriteHeader(r, s)
    \/ \E p \in ExtraTexts : WriteExtra(r, p)
    \/ \E k \in ValueKeys : \E v \in ValueVals : SetValue(r, k, v)
    \/ \E f \in Mutations : HandlerMutate(r, f)
    \/ \E d \in Elapsed : HandlerAddMillis(r, d)
    \/ HandlerReturn(r)
    \/ HandlerPanic(r)
    \/ LogLock(r)
    \/ LogUnlock(r)
    \/ PanicLock(r)
    \/ PanicWrite(r)
    \/ PanicUnlock(r)

SpecRecord == InitRecord /\ [][NextRecord]_vars

\* status codes a wrapped handler may pass to WriteHeader, which takes any
\* int: the codes of HandlerStatuses and the zero value
StatusCodes == HandlerStatuses \cup {0}

\* handlers that pass any int to WriteHeader, served by a ResponseWriter
\* that does not check the code, like those of the tests
NextCodes ==
  \E r \in Requests :
    \/ Start(r)
    \/ \E s \in StatusCodes : HandlerWriteHeader(r, s)
    \/ \E l \in WriteLens : \E n \in Accepts(l) : HandlerWrite(r, l, n)
    \/ HandlerReturn(r)
    \/ HandlerPanic(r)
    \/ LogLock(r)
    \/ LogUnlock(r)
    \/ PanicLock(r)
    \/ PanicWrite(r)
    \/ PanicUnlock(r)

SpecCodes == InitSingle /\ [][NextCodes]_vars

\* handlers that set a status, write a body and return
NextApache ==
  \E r \in Requests :
    \/ Start(r)
    \/ \E s \in HandlerStatuses : HandlerWriteHeader(r, s)
    \/ \E l \in WriteLens : \E n \in Accepts(l) : HandlerWrite(r, l, n)
    \/ HandlerReturn(r)
    \/ LogLock(r)
    \/ LogUnlock(r)

SpecApache == InitApache /\ [][NextApache]_vars

\* handlers that return or panic, or run forever
NextFair ==
  \E r \in Requests :
    \/ Start(r)
    \/ HandlerReturn(r)
    \/ HandlerPanic(r)
    \/ LogLock(r)
    \/ LogUnlock(r)
    \/ PanicLock(r)
    \/ PanicWrite(r)
    \/ PanicUnlock(r)

\* the goroutine of a request whose wrapped handler has finished keeps
\* running: the scheduler runs every goroutine that can run, and
\* h.mutex.Lock() returns once the mutex stays free.  Nothing is assumed
\* of the wrapped handlers, which may run forever
Fairness ==
  \A r \in Requests :
    /\ WF_vars(LogLock(r))
    /\ WF_vars(LogUnlock(r))
    /\ WF_vars(PanicLock(r))
    /\ WF_vars(PanicWrite(r))
    /\ WF_vars(PanicUnlock(r))

SpecFair == InitFair /\ [][NextFair]_vars /\ Fairness

\* handlers that return or panic, logged by a Logger and to a writer that
\* may panic
NextFault ==
  \E r \in Requests :
    \/ Start(r)
    \/ HandlerReturn(r)
    \/ HandlerPanic(r)
    \/ LogLock(r)
    \/ LogUnlock(r)
    \/ LogPanics(r)
    \/ PanicLock(r)
    \/ PanicWrite(r)
    \/ PanicUnlock(r)
    \/ WritePanicPanics(r)

SpecFault == InitFair /\ [][NextFault]_vars /\ Fairness

\* one request passes through two nested logHandlers; the code they wrap
\* uses the side channel and returns
NextNested ==
  \/ Start(Outer)
  \/ StartInner
  \/ \E p \in ExtraTexts : NestedWrite(p)
  \/ \E k \in ValueKeys : \E v \in ValueVals : NestedSet(k, v)
  \/ \E n \in Accepts(Len500) : InnerReturn(n)
  \/ OuterReturn
  \/ \E r \in {Outer, Inner} : LogLock(r) \/ LogUnlock(r)

SpecNested == InitNested /\ [][NextNested]_vars

TypeOK ==
  /\ pc \in [Requests -> {"idle", "handler", "logLock",
                          "logWrite", "panicLock", "panicWrite", "done"}]
  /\ mutex \in 0..NumRequests
  /\ left >= 0 /\ arrivals >= 0 /\ sideLeft >= 0
  /\ \A r \in Requests : Len(readings[r]) <= 2
  /\ \A r \in Requests : records[r].Duration >= 0
  /\ \A r \in Requests : capture[r].size >= 0

\* ----------------------------------------------------------- properties
\* the wrapped handler has finished (returned or panicked)
Finished(r) == pc[r] \notin {"idle", "handler"}

\* the status the first call of a non-empty call sequence implies
FirstStatus(calls) ==
  IF calls[1].op = "WriteHeader" THEN calls[1].arg ELSE StatusOK

\* the sum of the counts the ResponseWriter returned for the Write calls
RECURSIVE SumN(_)
SumN(calls) ==
  IF calls = <<>> THEN 0
  ELSE (IF Head(calls).op = "Write" THEN Head(calls).n ELSE 0)
       + SumN(Tail(calls))

\* the positions of a piece in the output writer
At(piece) == {i \in 1..Len(out) : out[i] = piece}

\* C1: whatever the wrapped handler does (returns, panics, calls Write and
\* WriteHeader zero or many times), Logger.Log is invoked exactly once for
\* the request, and only after the wrapped handler has finished.
C1_LogExactlyOnce ==
  \A r \in Requests :
    /\ logCalls[r] <= 1
    /\ (logCalls[r] = 1 => Finished(r))
    /\ (pc[r] = "done" => logCalls[r] = 1)

C1_Witness ==
  \E r \in Requests :
    /\ pc[r] = "done" /\ err[r] /\ logCalls[r] = 1
    /\ Len(issued[r]) = MaxCalls

\* C2: a panic of the wrapped handler never propagates out of ServeHTTP:
\* whenever ServeHTTP is left, it is left by a normal return.
C2_PanicNeverPropagates ==
  \A r \in Requests :
    /\ outcome[r] # "panicked"
    /\ (Finished(r) => ~panicking[r])
    /\ (pc[r] = "done" => outcome[r] = "returned")

C2_Witness ==
  \E r \in Requests :
    pc[r] = "done" /\ err[r] /\ issued[r] # <<>> /\ outcome[r] = "returned"

\* C3: when the wrapped handler sets no status and writes no body, status
\* 500 is sent to the underlying ResponseWriter and the record logged has
\* status 500.
C3_Send500OnNoOutput ==
  \A r \in Requests :
    (Finished(r) /\ issued[r] = <<>>) =>
      /\ Len(sink[r]) >= 1
      /\ sink[r][1] = WriteHeaderCall(StatusInternalServerError)
      /\ capture[r].status = StatusInternalServerError
      /\ (logCalls[r] = 1 => logged[r].status = StatusInternalServerError)

C3_Witness ==
  \E r \in Requests :
    /\ pc[r] = "done" /\ ~err[r] /\ issued[r] = <<>>
    /\ logged[r].status = StatusInternalServerError

\* the piece has landed in the output writer
Landed(piece) == \E i \in 1..Len(out) : out[i] = piece

\* the request's log line has landed in the output writer
LogLineWritten(r) ==
  \A k \in 1..Chunks : Landed(LogPiece(r, k))

\* the fault text (the "Panic:" line followed by the stack) has landed in
\* the output writer, all of it after the request's log line
PanicTextAfterLogLine(r) ==
  /\ LogLineWritten(r)
  /\ \A k \in 1..(2 * Chunks) : Landed(PanicPiece(r, k))
  /\ \A k \in 1..(2 * Chunks) : \A i \in At(PanicPiece(r, k)) :
       /\ \A j \in At(LogPiece(r, Chunks)) : j < i
       /\ \A g \in 1..(k - 1) : \A j \in At(PanicPiece(r, g)) : j < i

\* C4: if the wrapped handler panics before any status has been recorded,
\* a 500 is sent to the client, the log line (status 500) is written to the
\* output writer, and the panic description followed by the stack is
\* written to the same writer after that log line.
C4_PanicBeforeStatus ==
  \A r \in Requests :
    /\ (Finished(r) /\ err[r] /\ issued[r] = <<>>) =>
         /\ Len(sink[r]) = 2
         /\ sink[r][1] = WriteHeaderCall(StatusInternalServerError)
         /\ sink[r][2].op = "Write" /\ sink[r][2].arg = Len500
         /\ (logCalls[r] = 1 => logged[r].status = StatusInternalServerError)
         /\ (pc[r] = "done" => PanicTextAfterLogLine(r))
    /\ Landed(PanicPiece(r, 1)) => (err[r] /\ LogLineWritten(r))

C4_Witness ==
  \E r \in Requests :
    /\ pc[r] = "done" /\ err[r] /\ issued[r] = <<>>
    /\ PanicTextAfterLogLine(r)

\* C5: if the wrapped handler panics after a status has been recorded, no
\* 500 is sent and nothing further reaches the ResponseWriter; the log
\* line reports the status the handler set, and the panic text is still
\* written to the output writer.
C5_PanicAfterStatus ==
  \A r \in Requests :
    (Finished(r) /\ err[r] /\ issued[r] # <<>>) =>
      /\ sink[r] = issued[r]
      /\ (logCalls[r] = 1 => logged[r].status = FirstStatus(issued[r]))
      /\ (pc[r] = "done" => PanicTextAfterLogLine(r))

C5_Witness ==
  \E r \in Requests :
    /\ pc[r] = "done" /\ err[r] /\ Len(issued[r]) = MaxCalls
    /\ issued[r][1].op = "WriteHeader"
    /\ logged[r].status = issued[r][1].arg

\* C6: first status wins: once a status is recorded, by the first
\* WriteHeader or as 200 by the first Write, no later Write or WriteHeader
\* changes it or makes HasStatus false again; of two WriteHeader calls
\* with different codes the first one is logged.
C6_FirstStatusWins ==
  \A r \in Requests :
    issued[r] # <<>> =>
      /\ HasStatus(capture[r])
      /\ capture[r].status = FirstStatus(issued[r])
      /\ (logCalls[r] = 1 => logged[r].status = FirstStatus(issued[r]))

C6_Witness ==
  \E r \in Requests :
    /\ pc[r] = "done" /\ Len(issued[r]) >= 2
    /\ issued[r][1].op = "WriteHeader" /\ issued[r][2].op = "WriteHeader"
    /\ issued[r][1].arg # issued[r][2].arg
    /\ logged[r].status = issued[r][1].arg

\* C7: when the wrapped handler writes body bytes before setting any
\* explicit status, the logged status is 200 and the logged size is the
\* total number of bytes written, that is the sum of the counts the
\* ResponseWriter returned.
C7_WriteFirstLogs200 ==
  \A r \in Requests :
    (issued[r] # <<>> /\ issued[r][1].op = "Write") =>
      /\ capture[r].status = StatusOK
      /\ capture[r].size = SumN(sink[r])
      /\ (logCalls[r] = 1 =>
            /\ logged[r].status = StatusOK
            /\ logged[r].size = SumN(sink[r]))

C7_Witness ==
  \E r \in Requests :
    /\ pc[r] = "done" /\ Len(issued[r]) >= 2
    /\ issued[r][1].op = "Write" /\ issued[r][1].n < issued[r][1].arg
    /\ issued[r][2].op = "WriteHeader"
    /\ logged[r].status = StatusOK /\ logged[r].size = issued[r][1].n

\* the calls of the synthesized 500, made when no status was recorded
Synthesized(r) ==
  IF Finished(r) /\ issued[r] = <<>>
    THEN {<<WriteHeaderCall(StatusInternalServerError), WriteCall(Len500, n)>>
            : n \in Accepts(Len500)}
    ELSE {<<>>}

\* C8: the Capture is transparent: the calls reaching the underlying
\* ResponseWriter are exactly the calls the handler issued on the Capture,
\* same arguments and same order, WriteHeader calls that follow a recorded
\* status included, and Write returns what the ResponseWriter returned; the
\* only additional calls are those of the synthesized 500.
C8_CaptureTransparent ==
  \A r \in Requests :
    \E extra \in Synthesized(r) : sink[r] = issued[r] \o extra

C8_Witness ==
  \E r \in Requests :
    /\ pc[r] = "done" /\ Len(issued[r]) >= 2
    /\ issued[r][2].op = "WriteHeader"
    /\ sink[r] = issued[r]

\* the requests between h.mutex.Lock() and h.mutex.Unlock()
Writing == {r \in Requests : pc[r] \in {"logWrite", "panicWrite"}}

\* every Write on the output writer landed whole: its pieces are adjacent
\* and in order, and a Write still under way is the mutex holder's
WritesIntact ==
  \A i \in 1..Len(out) :
    /\ out[i].k > 1 => (i > 1 /\ out[i - 1] = [out[i] EXCEPT !.k = @ - 1])
    /\ out[i].k < Chunks =>
         IF i < Len(out) THEN out[i + 1] = [out[i] EXCEPT !.k = @ + 1]
         ELSE out[i].req \in Writing /\ mutex = out[i].req

\* C9: with several requests served concurrently by the same logHandler,
\* each request produces exactly one log line, a line is rendered and
\* written while the mutex is held, so at most one request is writing to
\* the output writer at any time, and no line holds pieces of another
\* request's line.
C9_OneIntactLinePerRequest ==
  /\ Cardinality(Writing) <= 1
  /\ \A r \in Writing : mutex = r
  /\ (mutex # 0 => mutex \in Writing)
  /\ WritesIntact
  /\ \A r \in Requests :
       LET count == Cardinality(At(LogPiece(r, 1)))
       IN count <= 1 /\ (pc[r] = "done" => count = 1)

C9_Witness ==
  /\ \A r \in Requests : pc[r] = "done"
  /\ \E r1, r2 \in Requests :
       /\ r1 # r2
       /\ \A i \in At(LogPiece(r1, 1)) : \A j \in At(LogPiece(r2, 1)) :
            /\ i < j
            /\ \E k \in At(PanicPiece(r1, 1)) : j < k

\* C10: the fault text is appended to the output writer immediately after
\* the faulting request's log line: under any interleaving of concurrent
\* requests nothing of another request is written between the two.
C10_FaultTextRightAfterLogLine ==
  \A r \in Requests : \A i \in At(PanicPiece(r, 1)) :
    i > 1 /\ out[i - 1] = LogPiece(r, Chunks)

\* ------------------------------------------------ side-channel properties
\* the request has been given to ServeHTTP, which registered it
Registered(r) == pc[r] # "idle"

\* the calls made while the wrapped handler was running
InHandler(calls) == SelectSeq(calls, LAMBDA c : c.at = "handler")

\* the texts written by the calls that reached a buffer, in call order
RECURSIVE Written(_)
Written(calls) ==
  IF calls = <<>> THEN <<>>
  ELSE (IF Head(calls).op = "Writer" /\ Head(calls).hit
          THEN Head(calls).text ELSE <<>>) \o Written(Tail(calls))

\* the key-value pairs stored by the calls that reached a map
RECURSIVE Stored(_)
Stored(calls) ==
  IF calls = <<>> THEN EmptyMap
  ELSE LET c == calls[Len(calls)]
           rest == Stored(SubSeq(calls, 1, Len(calls) - 1))
       IN IF c.op = "Values" /\ c.hit THEN [rest EXCEPT ![c.key] = c.val]
          ELSE rest

\* C11: the side channel is isolated between requests served concurrently
\* by the same logHandler: two registered requests never share a buffer or
\* a map, so the buffer, the map and the record of a request hold exactly
\* what was written through Writer and Values of that very request and
\* nothing of another request's.
C11_SideChannelIsolated ==
  \A r \in Requests :
    /\ \A q \in Requests \ {r} :
         (Registered(r) /\ Registered(q)) =>
           /\ registry[r].kBufferKey # registry[q].kBufferKey
           /\ registry[r].kValuesKey # registry[q].kValuesKey
    /\ Registered(r) =>
         /\ buffers[registry[r].kBufferKey] = Written(side[r])
         /\ maps[registry[r].kValuesKey] = Stored(side[r])
    /\ Finished(r) => records[r].Extra = Written(InHandler(side[r]))

C11_Witness ==
  \E r1, r2 \in Requests :
    /\ r1 # r2 /\ pc[r1] = "handler" /\ pc[r2] = "logLock"
    /\ Written(side[r1]) # <<>>
    /\ records[r2].Extra = <<>>
    /\ buffers[registry[r2].kBufferKey] = <<>>

\* the line of a request without its extra text and its newline
SimpleBase(r) ==
  LET bare == simpleLoggerLog([records[r] EXCEPT !.Extra = <<>>], capture[r])
  IN SubSeq(bare, 1, Len(bare) - 1)

\* C12 as stated: the text appended through Writer(r) during handling is
\* at the end of the Simple line, verbatim and in append order, after one
\* separating space that follows the elapsed milliseconds, and nothing
\* follows it; when nothing was appended the line ends after the elapsed
\* milliseconds.
C12_ExtraAfterOneSpace ==
  \A r \in Requests :
    (logCalls[r] = 1 /\ h.logger = "simpleLogger") =>
      LET text == Written(InHandler(side[r]))
      IN lines[r] = SimpleBase(r)
           \o (IF text = <<>> THEN <<>> ELSE <<" ">> \o text) \o <<"\n">>

\* C12 amended: the text appended through Writer(r) during handling is at
\* the end of the Simple line, verbatim and in append order, directly
\* after the elapsed milliseconds: the logger puts nothing before it and
\* only the newline after it, so a separating space is there when the
\* handler wrote one; when nothing was appended the line ends after the
\* elapsed milliseconds, without a trailing space.
C12_ExtraVerbatim ==
  \A r \in Requests :
    (logCalls[r] = 1 /\ h.logger = "simpleLogger") =>
      /\ lines[r] = SimpleBase(r) \o Written(InHandler(side[r])) \o <<"\n">>
      /\ SimpleBase(r)[Len(SimpleBase(r))]
           = ToString(records[r].Duration \div Millisecond)

C12_Witness ==
  \E r \in Requests :
    /\ pc[r] = "done" /\ h.logger = "simpleLogger"
    /\ Len(side[r]) = 2
    /\ side[r][1].text = <<" ", "behere">> /\ side[r][2].text = <<"behere">>
    /\ lines[r] = SimpleBase(r) \o <<" ", "behere", "behere", "\n">>

\* the last call made on the side channel of the request
LastCall(calls) == calls[Len(calls)]

\* a step in which Writer(r) or Values(r) is called for a request that was
\* never given to a logHandler
Unwrapped(r, op) ==
  /\ Len(side'[r]) = Len(side[r]) + 1
  /\ LastCall(side'[r]).op = op
  /\ LastCall(side'[r]).at = "idle"

\* C13: Writer(r) of a request that is not registered is a no-op writer:
\* its Write returns the length of the input and no error, and changes
\* nothing: no buffer, no log output, no registration.
C13_UnwrappedWriterNoOp ==
  [][\A r \in Requests :
       Unwrapped(r, "Writer") =>
         /\ ~LastCall(side'[r]).hit
         /\ LastCall(side'[r]).n = Len(LastCall(side'[r]).text)
         /\ ~LastCall(side'[r]).err
         /\ UNCHANGED <<registry, buffers, maps, out, lines, records, pc>>
    ]_vars

C13_Witness ==
  \E r \in Requests :
    /\ side[r] # <<>>
    /\ side[r][1].op = "Writer" /\ side[r][1].at = "idle"
    /\ side[r][1].n = 2 /\ pc[r] = "done" /\ records[r].Extra = <<>>

\* C14: Values(r) of a request that is not registered returns nil, does
\* not fault, and creates no registration and no map for the request.
C14_UnwrappedValuesNil ==
  [][\A r \in Requests :
       Unwrapped(r, "Values") =>
         /\ ~LastCall(side'[r]).hit
         /\ Values(registry', r) = NoRef
         /\ UNCHANGED <<registry, maps, buffers, out, pc, outcome>>
    ]_vars

C14_Witness ==
  \E r \in Requests :
    /\ side[r] # <<>>
    /\ side[r][1].op = "Values" /\ side[r][1].at = "idle"
    /\ ~side[r][1].hit /\ registry[r] = kNoEntries

\* C15: every ServeHTTP invocation registers a new, empty buffer and a
\* new, empty map for the request before the wrapped handler runs;
\* Values(r) gives the handler that very map, so every key the handler
\* sets is, with its last value, in the Values of the record Logger.Log
\* receives.
C15_FreshLiveSideChannel ==
  \A r \in Requests :
    /\ Registered(r) =>
         /\ additional[r] # NoRef /\ values[r] # NoRef
         /\ registry[r] =
              [kBufferKey |-> additional[r], kValuesKey |-> values[r]]
    /\ (pc[r] = "handler" /\ side[r] = <<>>) =>
         /\ buffers[additional[r]] = <<>>
         /\ maps[values[r]] = EmptyMap
    /\ \A i \in 1..Len(side[r]) : side[r][i].at = "handler" => side[r][i].hit
    /\ Finished(r) => records[r].Values = values[r]
    /\ logCalls[r] = 1 =>
         /\ logged[r].values = Stored(InHandler(side[r]))
         /\ \A i \in 1..Len(side[r]) :
              side[r][i].op = "Values" =>
                logged[r].values[side[r][i].key] # Nil

C15_Witness ==
  \E r \in Requests :
    /\ pc[r] = "done" /\ Len(side[r]) = 2
    /\ logged[r].values = [field1 |-> "one", field2 |-> "two"]

\* the token is part of the text
Contains(text, token) == \E i \in 1..Len(text) : text[i] = token

\* what the wrapped handler may have put into the live request
MutatedTokens == {"/HandlerMutatedRequest", "POST", "10.0.1.3", "mutated"}

\* C16: the Snapshot is taken before the wrapped handler is invoked and is
\* not affected by what the handler assigns to the live request
\* afterwards: the record and the rendered line show the path, method,
\* remote address, referer and user agent the request arrived with.
C16_SnapshotUnaffected ==
  \A r \in Requests :
    /\ Registered(r) => snapshot[r] = NewSnapshot(TestRequest)
    /\ Finished(r) => records[r].R = NewSnapshot(TestRequest)
    /\ logCalls[r] = 1 =>
         /\ lines[r] = Log(h.logger,
              [records[r] EXCEPT !.R = NewSnapshot(TestRequest)], capture[r])
         /\ \A t \in MutatedTokens : ~Contains(lines[r], t)

C16_Witness ==
  \E r \in Requests :
    /\ pc[r] = "done" /\ h.logger = "apacheCombinedLogger"
    /\ request[r].URL.Path = "/HandlerMutatedRequest"
    /\ request[r].Header.Referer = "mutated"
    /\ Contains(lines[r], "/foo/bar") /\ Contains(lines[r], "referer")

\* C17: the registration does not outlive the request: once ServeHTTP has
\* returned, Writer(r) is the no-op writer and Values(r) is nil.
C17_RegistrationCleared ==
  \A r \in Requests :
    pc[r] = "done" =>
      /\ Writer(registry, r).kind = "nilWriter"
      /\ Values(registry, r) = NoRef

\* C18: the time source is read exactly twice per request, when the
\* request starts and when the wrapped handler has finished, by return or
\* by panic; the record's T is the first reading and its Duration the
\* second reading minus the first.
C18_ClockReadTwice ==
  \A r \in Requests :
    /\ Len(readings[r]) = (IF pc[r] = "idle" THEN 0
                           ELSE IF pc[r] = "handler" THEN 1 ELSE 2)
    /\ Finished(r) =>
         /\ records[r].T = readings[r][1]
         /\ records[r].Duration = Sub(readings[r][2], readings[r][1])

C18_Witness ==
  \E r \in Requests :
    /\ pc[r] = "done" /\ err[r]
    /\ records[r].T = kTime
    /\ records[r].Duration = 387 * Millisecond + 1500 * Microsecond

\* the field the handler gets for a field of the Options
Defaulted(field, default) ==
  IF options = <<>> THEN default
  ELSE IF options[1][field] = Nil THEN default ELSE options[1][field]

\* C19: a handler built with Handler(h), with HandlerWithOptions(h, nil) or
\* from Options whose Writer, Logger or Now is nil serves requests without
\* faulting and uses the defaults: standard error, the Simple logger, the
\* system clock.
C19_DefaultsServe ==
  /\ h = [w |-> Defaulted("Writer", "os.Stderr"),
          logger |-> Defaulted("Logger", "simpleLogger"),
          now |-> Defaulted("Now", "time.Now")]
  /\ Handler = [w |-> "os.Stderr", logger |-> "simpleLogger",
                now |-> "time.Now"]
  /\ \A r \in Requests :
       /\ outcome[r] # "panicked"
       /\ pc[r] = "done" =>
            /\ outcome[r] = "returned" /\ logCalls[r] = 1
            /\ lines[r] = Log(Defaulted("Logger", "simpleLogger"),
                              records[r], capture[r])

C19_Witness ==
  /\ options = <<>>
  /\ \E r \in Requests :
       /\ pc[r] = "done" /\ outcome[r] = "returned"
       /\ lines[r] = simpleLoggerLog(records[r], capture[r])
       /\ h.w = "os.Stderr" /\ h.now = "time.Now"

\* C20: the Simple logger renders the timestamp as MM/DD/YYYY HH:MM:SS
\* followed by the fractional microseconds when they are not zero, then
\* the remote address without its port; the request received at
\* 13:14:15.123456 is logged with 03/23/2013 13:14:15.123456.
C20_SimpleLineWithMicros ==
  \A r \in Requests :
    (logCalls[r] = 1 /\ h.logger = "simpleLogger") =>
      LET stamp == Format(records[r].T, MicrosLayout)
      IN /\ SubSeq(lines[r], 1, Len(stamp)) = stamp
         /\ SubSeq(lines[r], Len(stamp) + 1, Len(stamp) + 3)
              = <<" ", "192.168.5.1", " ">>

\* ------------------------------------------------------ format properties
\* the positions of a token in a text
Positions(text, token) == {i \in 1..Len(text) : text[i] = token}

\* C21: in the Apache Common and Apache Combined formats the timestamp is
\* rendered with the offset +0000, whatever the location of the start time
\* the time source supplied.
C21_ApacheOffsetUTC ==
  \A r \in Requests :
    (logCalls[r] = 1 /\ h.logger \in ApacheLoggers) =>
      \E i \in Positions(lines[r], "+0000") :
        /\ SubSeq(lines[r], i - 1, i + 1) = <<" ", "+0000", "]">>
        /\ lines[r][i - 2] = "23/Mar/2013:13:14:15"

\* the user field of an Apache line: the third field, after the remote
\* address and the "-" of the identity
UserField(r) == lines[r][Len(StripPort(records[r].R.RemoteAddr)) + 4]

\* C22: ApacheUser gives "-" when the URL has no user info or its user
\* name is empty, and the user name otherwise; that is the user field of
\* the Apache lines.
C22_ApacheUserDash ==
  \A r \in Requests :
    LET user == request[r].URL.User
    IN /\ ApacheUser(user) = (IF user \in {Nil, ""} THEN "-" ELSE user)
       /\ (logCalls[r] = 1 /\ h.logger \in ApacheLoggers) =>
            UserField(r) = (IF user \in {Nil, ""} THEN "-" ELSE user)

C22_Witness ==
  \E r \in Requests :
    /\ pc[r] = "done" /\ h.logger = "apacheCommonLogger"
    /\ request[r].URL.User = "" /\ UserField(r) = "-"

\* C23: StripPort gives the host of a remote address: for host:port, the
\* host in brackets of an IPv6 address included, it gives the host, and an
\* address without a port it gives back unchanged.
C23_StripPortHost ==
  \A r \in Requests :
    \A host \in Hosts : \A port \in Ports :
      request[r].RemoteAddr = JoinHostPort(host, port) =>
        /\ StripPort(request[r].RemoteAddr) = host
        /\ (logCalls[r] = 1 /\ h.logger \in ApacheLoggers) =>
             SubSeq(lines[r], 1, Len(host) + 1) = host \o <<" ">>

\* ------------------------------------------------------ progress properties
\* C24: the mutex is never held while the wrapped handler of its holder
\* runs: it is held only inside writeLogRecord and writePanic.  So no
\* request waits for the handler of another request: under fair
\* scheduling every request whose handler has returned or panicked
\* reaches the end of ServeHTTP with its log line written, whatever the
\* other handlers do.
C24_NoWaitForHandlers ==
  /\ [](\A r \in Requests :
         /\ mutex = r => pc[r] \in {"logWrite", "panicWrite"}
         /\ pc[r] \in {"idle", "handler", "done"} => mutex # r)
  /\ \A r \in Requests :
       Finished(r) ~> (pc[r] = "done" /\ LogLineWritten(r))

C24_Witness ==
  \E r1, r2 \in Requests :
    /\ pc[r1] = "done" /\ err[r1] /\ LogLineWritten(r1)
    /\ pc[r2] = "handler" /\ ~LogLineWritten(r2)

\* ------------------------------------------------------ Capture properties
\* the calls the ResponseWriter of the request receives in this step
NewCalls(r) == SubSeq(sink'[r], Len(sink[r]) + 1, Len(sink'[r]))

\* C25: the byte count of the Capture starts at 0, never decreases, and
\* is at any time the sum of the counts the underlying ResponseWriter
\* returned for the Write calls, not the sum of the lengths passed in; a
\* WriteHeader call leaves it unchanged.
C25_SizeCountsAccepted ==
  /\ [](\A r \in Requests :
         /\ capture[r].size = SumN(sink[r])
         /\ sink[r] = <<>> => capture[r].size = 0)
  /\ [][\A r \in Requests :
         /\ capture'[r].size >= capture[r].size
         /\ capture'[r].size = capture[r].size + SumN(NewCalls(r))
         /\ (\A i \in 1..Len(NewCalls(r)) : NewCalls(r)[i].op = "WriteHeader")
              => capture'[r].size = capture[r].size
      ]_vars

C25_Witness ==
  \E r \in Requests :
    /\ pc[r] = "done" /\ Len(issued[r]) >= 2
    /\ issued[r][1] = [op |-> "Write", arg |-> 1, n |-> 0, err |-> TRUE]
    /\ issued[r][2] = [op |-> "Write", arg |-> 1, n |-> 1, err |-> FALSE]
    /\ capture[r].size = 1 /\ logged[r].size = 1

\* C26: whenever Logger.Log is invoked, the step that synthesizes the 500
\* has run: the Capture of the record has a status, and the status it
\* recorded, which is the one logged, is not zero, whatever the wrapped
\* handler did.
C26_StatusSetWhenLogged ==
  \A r \in Requests :
    /\ pc[r] = "logLock" =>
         HasStatus(capture[r]) /\ capture[r].status # 0
    /\ logCalls[r] = 1 =>
         HasStatus(capture[r]) /\ logged[r].status # 0

\* ------------------------------------------------------ completion properties
\* the deferred function called a before b
CalledBefore(a, b) ==
  \E i, j \in 1..Len(steps) : i < j /\ steps[i] = a /\ steps[j] = b

\* C27: the steps of completion run in this order: the fault is
\* intercepted, the 500 is synthesized when no status was recorded, the
\* end time is read and the duration computed, the record is assembled
\* and written under the lock, the fault text is written; the end time is
\* read after the 500 was synthesized.
C27_CompletingOrder ==
  \A r \in Requests :
    /\ Finished(r) =>
         /\ CalledBefore("recover", "maybeSend500")
         /\ CalledBefore("maybeSend500", "h.now")
         /\ records[r].Duration = Sub(readings[r][2], readings[r][1])
    /\ logCalls[r] = 1 => HasStatus(capture[r])
    /\ Landed(PanicPiece(r, 1)) => LogLineWritten(r)

\* C28: what the wrapped handler wrote through the side channel before it
\* panicked is in the record of the request: the record is assembled from
\* the buffer and the map as they are at completion, after a panic as
\* after a return, and the line shows the extra text.
C28_SideChannelOnPanic ==
  \A r \in Requests :
    (Finished(r) /\ err[r]) =>
      /\ records[r].Extra = Written(InHandler(side[r]))
      /\ records[r].Values = values[r]
      /\ maps[values[r]] = Stored(InHandler(side[r]))
      /\ logCalls[r] = 1 =>
           /\ logged[r].values = Stored(InHandler(side[r]))
           /\ h.logger = "simpleLogger" =>
                lines[r] = SimpleBase(r) \o records[r].Extra \o <<"\n">>

C28_Witness ==
  \E r \in Requests :
    /\ pc[r] = "done" /\ err[r] /\ Len(side[r]) = 2
    /\ records[r].Extra = <<" ", "behere">>
    /\ logged[r].values = [field1 |-> "one", field2 |-> Nil]
    /\ PanicTextAfterLogLine(r)

\* C29: a failing output writer never fails the request: when its Write
\* returns an error for the log line or for the fault text, the error is
\* ignored, ServeHTTP returns normally, what was sent to the client stays
\* as it was, and the mutex is released.
C29_SinkFailureIgnored ==
  /\ [](\A r \in Requests :
         /\ outcome[r] # "panicked"
         /\ pc[r] = "done" => (outcome[r] = "returned" /\ logCalls[r] = 1)
         /\ pc[r] \notin {"logWrite", "panicWrite"} => mutex # r
         /\ (pc[r] = "done" /\ err[r] /\ ~WriteFails(h.w)) =>
              PanicTextAfterLogLine(r)
         /\ WriteFails(h.w) => out = <<>>)
  /\ [][\A r \in Requests :
         Finished(r) => (sink'[r] = sink[r] /\ capture'[r] = capture[r])
      ]_vars

C29_Witness ==
  \E r \in Requests :
    /\ WriteFails(h.w) /\ pc[r] = "done" /\ err[r]
    /\ outcome[r] = "returned" /\ mutex = 0 /\ out = <<>>
    /\ sink[r] # <<>> /\ logCalls[r] = 1

\* C30: the 500 is synthesized through the Capture, so its body counts
\* toward the logged size: for a handler that wrote nothing, the size
\* logged is the number of bytes of "500 Internal Server Error" and its
\* newline that the ResponseWriter accepted, 26 when it took them all,
\* and not the 0 of a response without body.
C30_Synthesized500Counted ==
  \A r \in Requests :
    (Finished(r) /\ issued[r] = <<>>) =>
      /\ Len(sink[r]) = 2
      /\ sink[r][2].op = "Write" /\ sink[r][2].arg = Len500
      /\ capture[r].size = sink[r][2].n
      /\ logCalls[r] = 1 => logged[r].size = sink[r][2].n

C30_Witness ==
  \E r \in Requests :
    /\ pc[r] = "done" /\ ~err[r] /\ issued[r] = <<>>
    /\ logged[r].size = Len500 /\ logged[r].status = 500

\* ------------------------------------------------- late claims: Capture.Write
\* a Write that failed or took no bytes: the ResponseWriter returned an
\* error or the count zero (a zero-length Write is of the second kind)
Fruitless(call) == call.op = "Write" /\ (call.err \/ call.n = 0)

\* the request's ResponseWriter received a WriteHeader(500)
Got500(r) ==
  \E i \in 1..Len(sink[r]) :
    sink[r][i] = WriteHeaderCall(StatusInternalServerError)

\* C31: any call of the Capture's Write records the status 200 when none
\* was recorded, also when the underlying ResponseWriter returns an error
\* or takes zero bytes (a zero-length Write included); from then on
\* HasStatus() is true, so no 500 is synthesized and the status logged is
\* 200.
C31_WriteAlwaysMarks200 ==
  /\ [][\A r \in Requests :
         (/\ Len(issued'[r]) = Len(issued[r]) + 1
          /\ issued'[r][Len(issued'[r])].op = "Write"
          /\ ~HasStatus(capture[r]))
           => /\ HasStatus(capture'[r])
              /\ capture'[r].status = StatusOK
      ]_vars
  /\ [](\A r \in Requests :
         (issued[r] # <<>> /\ Fruitless(issued[r][1])) =>
           /\ HasStatus(capture[r])
           /\ capture[r].status = StatusOK
           /\ ~Got500(r)
           /\ (logCalls[r] = 1 => logged[r].status = StatusOK))

C31_Witness ==
  \E r \in Requests :
    /\ pc[r] = "done" /\ logCalls[r] = 1
    /\ issued[r] = <<[op |-> "Write", arg |-> 1, n |-> 0, err |-> TRUE]>>
    /\ sink[r] = issued[r]
    /\ logged[r].status = StatusOK /\ logged[r].size = 0

\* ---------------------------------------------- late claims: faults under lock
\* the request is inside writeLogRecord or writePanic, past h.mutex.Lock()
UnderLock(r) == pc[r] \in {"logWrite", "panicWrite"}

\* Logger.Log was called for the request and panicked before the line was
\* complete
LogFaulted(r) ==
  pc[r] = "done" /\ logCalls[r] = 1 /\ ~LogLineWritten(r)

\* C32: the mutex is released on every exit from writeLogRecord and
\* writePanic, also when Logger.Log or the Write of the output writer
\* panics while the mutex is held: a request that is outside the two
\* functions never holds it, and under fair scheduling every request whose
\* handler has finished passes both functions and reaches the end of
\* ServeHTTP, whatever faults the other requests had.
C32_UnlockOnEveryExit ==
  /\ [](\A r \in Requests : ~UnderLock(r) => mutex # r)
  /\ [][\A r \in Requests :
         (mutex = r /\ ~UnderLock(r)') => mutex' = 0]_vars
  /\ \A r \in Requests : Finished(r) ~> pc[r] = "done"

C32_Witness ==
  \E r1, r2 \in Requests :
    /\ r1 # r2
    /\ LogFaulted(r1) /\ outcome[r1] = "panicked"
    /\ mutex = 0
    /\ pc[r2] = "done" /\ LogLineWritten(r2)
    /\ \A i \in At(LogPiece(r1, 1)) : \A j \in At(LogPiece(r2, 1)) : i < j

\* ------------------------------------------- late claims: nested logHandlers
\* the calls made before the inner logHandler registered the request
BeforeInner(calls) == SelectSeq(calls, LAMBDA c : c.at = "idle")

\* the calls made once the inner logHandler had registered the request
SinceInner(calls) == SelectSeq(calls, LAMBDA c : c.at # "idle")

\* C33: when the same request passes through two nested logHandlers, each
\* of them logs from the buffer and the map it allocated itself.  The
\* inner registration replaces the outer one under the same keys, so what
\* is written through Writer(r) and Values(r) once the inner logHandler
\* has started, also after it has returned, goes only to the inner buffer
\* and map, and the outer record and line hold only what was written before
\* the inner logHandler registered; the inner record and line hold what
\* was written while the inner logHandler was serving.
C33_NestedOwnBuffers ==
  /\ Registered(Outer) =>
       /\ buffers[additional[Outer]] = Written(BeforeInner(side[Outer]))
       /\ maps[values[Outer]] = Stored(BeforeInner(side[Outer]))
  /\ Registered(Inner) =>
       /\ additional[Inner] # additional[Outer]
       /\ values[Inner] # values[Outer]
       /\ registry[Outer].kBufferKey = additional[Inner]
       /\ registry[Outer].kValuesKey = values[Inner]
       /\ buffers[additional[Inner]] = Written(SinceInner(side[Outer]))
       /\ maps[values[Inner]] = Stored(SinceInner(side[Outer]))
  /\ Finished(Outer) =>
       /\ records[Outer].Extra = Written(BeforeInner(side[Outer]))
       /\ records[Outer].Values = values[Outer]
  /\ Finished(Inner) =>
       /\ records[Inner].Extra = Written(InHandler(side[Outer]))
       /\ records[Inner].Values = values[Inner]
  /\ logCalls[Outer] = 1 =>
       /\ lines[Outer] = SimpleBase(Outer)
            \o Written(BeforeInner(side[Outer])) \o <<"\n">>
       /\ logged[Outer].values = Stored(BeforeInner(side[Outer]))
  /\ logCalls[Inner] = 1 =>
       /\ lines[Inner] = SimpleBase(Inner)
            \o Written(InHandler(side[Outer])) \o <<"\n">>
       /\ logged[Inner].values = Stored(InHandler(side[Outer]))

C33_Witness ==
  /\ pc[Outer] = "done" /\ pc[Inner] = "done"
  /\ logCalls[Outer] = 1 /\ logCalls[Inner] = 1
  /\ Len(side[Outer]) = 2
  /\ side[Outer][1].op = "Writer" /\ side[Outer][1].at = "idle"
  /\ side[Outer][2].op = "Writer" /\ side[Outer][2].at = "done"
  /\ records[Outer].Extra = side[Outer][1].text
  /\ records[Inner].Extra = <<>>
  /\ buffers[additional[Inner]] = side[Outer][2].text
====
